---- MODULE Spec2Model ----
(***************************************************************************)
(* Model of frontend/app/student/lectures.ts: the lecture catalog client.  *)
(*                                                                         *)
(* The module constant apiBaseUrl is resolved once from the environment;   *)
(* fetchLectures() and fetchLecture(slug) each issue one fetch() with      *)
(* cache: "no-store", throw a fixed Error when response.ok is false, and   *)
(* otherwise return the value response.json() decodes.  Both are async     *)
(* functions with two suspension points (await fetch, await json), so an   *)
(* invocation is a small process: idle -> fetch -> json -> done.           *)
(*                                                                         *)
(* A response body is a sequence of JSON tokens; response.json() is the    *)
(* recursive-descent parser JsonParse, and the remote service writes its   *)
(* bodies with Stringify.                                                  *)
(***************************************************************************)
EXTENDS Integers, Sequences, FiniteSets, TLC

(***************************************************************************)
(* Bounds of the model.                                                    *)
(***************************************************************************)
\* Number of invocation slots that may be in flight at the same time.
NumCalls == 2
\* Longest lecture array the remote service sends.
MaxLectures == 2

Calls == 1..NumCalls
\* The caller of the sequential specification awaits each call in turn.
Sequential == {1}

(***************************************************************************)
(* JSON values.  Every value is a record of one shape, so that any two can *)
(* be compared: k is the kind, s the text of a string (or the key of an    *)
(* object member), items the elements of an array, the members of an       *)
(* object or the value of a member.                                        *)
(***************************************************************************)
JNull == [k |-> "null", s |-> "", items |-> <<>>]
JStr(s) == [k |-> "str", s |-> s, items |-> <<>>]
JArr(xs) == [k |-> "arr", s |-> "", items |-> xs]
JMem(key, v) == [k |-> "mem", s |-> key, items |-> <<v>>]
JObj(ms) == [k |-> "obj", s |-> "", items |-> ms]

\* The value of object o at key (JNull when the key is absent).
Field(o, key) ==
    LET hits == {i \in 1..Len(o.items) : o.items[i].s = key}
    IN  IF o.k = "obj" /\ hits # {}
        THEN o.items[CHOOSE i \in hits : TRUE].items[1]
        ELSE JNull

\* One entry of Lecture.keyConcepts.
KeyConcept(title, timestamp) ==
    JObj(<<JMem("title", JStr(title)), JMem("timestamp", JStr(timestamp))>>)

\* A value of the type Lecture: nine members, in the order of the type.
Lecture(slug, title, description, duration, image, publishedDate, views, aiSummary, keyConcepts) ==
    JObj(<<JMem("slug", JStr(slug)),
           JMem("title", JStr(title)),
           JMem("description", JStr(description)),
           JMem("duration", JStr(duration)),
           JMem("image", JStr(image)),
           JMem("publishedDate", JStr(publishedDate)),
           JMem("views", JStr(views)),
           JMem("aiSummary", JStr(aiSummary)),
           JMem("keyConcepts", JArr(keyConcepts))>>)

LectureKeys ==
    <<"slug", "title", "description", "duration", "image", "publishedDate",
      "views", "aiSummary", "keyConcepts">>

LectureIntro ==
    Lecture("intro-to-systems", "Intro to Systems", "Processes and memory",
            "42:10", "/intro.png", "2024-02-01", "1.2k", "An overview",
            <<KeyConcept("Scheduling", "03:15")>>)

LectureA ==
    Lecture("a", "A", "d", "10:00", "/a.png", "2024-01-01", "100", "s", <<>>)

Lectures == {LectureIntro, LectureA}

\* v has the members of the type Lecture, each of the declared type.
IsLecture(v) ==
    /\ v.k = "obj"
    /\ Len(v.items) = Len(LectureKeys)
    /\ \A i \in 1..Len(LectureKeys) :
          /\ v.items[i].s = LectureKeys[i]
          /\ v.items[i].items[1].k = (IF i = Len(LectureKeys) THEN "arr" ELSE "str")

(***************************************************************************)
(* JSON text: a sequence of tokens, punctuation or string literals.        *)
(***************************************************************************)
P(c) == [t |-> "punct", v |-> c]
S(s) == [t |-> "string", v |-> s]

RECURSIVE Stringify(_)
RECURSIVE StringifyItems(_, _)
\* The token sequence of value v, as JSON.stringify writes it.
Stringify(v) ==
    CASE v.k = "str" -> <<S(v.s)>>
      [] v.k = "arr" -> <<P("[")>> \o StringifyItems(v.items, 1) \o <<P("]")>>
      [] v.k = "obj" -> <<P("{")>> \o StringifyItems(v.items, 1) \o <<P("}")>>
      [] v.k = "mem" -> <<S(v.s), P(":")>> \o Stringify(v.items[1])
      [] OTHER -> <<P("null")>>
StringifyItems(xs, i) ==
    IF i > Len(xs) THEN <<>>
    ELSE Stringify(xs[i])
         \o (IF i < Len(xs) THEN <<P(",")>> ELSE <<>>)
         \o StringifyItems(xs, i + 1)

ParseFail == [ok |-> FALSE, val |-> JNull, next |-> 0]
ParseOk(v, n) == [ok |-> TRUE, val |-> v, next |-> n]

IsPunct(toks, i, c) == i <= Len(toks) /\ toks[i] = P(c)

\* Members ms with key set to v: a repeated key keeps its first position and
\* takes the last value, as in JSON.parse.
PutMember(ms, key, v) ==
    IF \E i \in 1..Len(ms) : ms[i].s = key
    THEN [i \in 1..Len(ms) |-> IF ms[i].s = key THEN JMem(key, v) ELSE ms[i]]
    ELSE Append(ms, JMem(key, v))

RECURSIVE ParseValue(_, _)
RECURSIVE ParseElements(_, _, _)
RECURSIVE ParseMembers(_, _, _)
\* The JSON value that starts at token i, and the position after it.
ParseValue(toks, i) ==
    IF i > Len(toks) THEN ParseFail
    ELSE IF toks[i].t = "string" THEN ParseOk(JStr(toks[i].v), i + 1)
    ELSE IF toks[i] = P("null") THEN ParseOk(JNull, i + 1)
    ELSE IF toks[i] = P("[") THEN
        IF IsPunct(toks, i + 1, "]") THEN ParseOk(JArr(<<>>), i + 2)
        ELSE ParseElements(toks, i + 1, <<>>)
    ELSE IF toks[i] = P("{") THEN
        IF IsPunct(toks, i + 1, "}") THEN ParseOk(JObj(<<>>), i + 2)
        ELSE ParseMembers(toks, i + 1, <<>>)
    ELSE ParseFail
ParseElements(toks, i, acc) ==
    LET r == ParseValue(toks, i)
    IN  IF ~r.ok THEN ParseFail
        ELSE IF IsPunct(toks, r.next, ",")
             THEN ParseElements(toks, r.next + 1, Append(acc, r.val))
        ELSE IF IsPunct(toks, r.next, "]")
             THEN ParseOk(JArr(Append(acc, r.val)), r.next + 1)
        ELSE ParseFail
ParseMembers(toks, i, acc) ==
    IF ~(i + 1 <= Len(toks) /\ toks[i].t = "string" /\ toks[i + 1] = P(":"))
    THEN ParseFail
    ELSE LET r == ParseValue(toks, i + 2)
         IN  IF ~r.ok THEN ParseFail
             ELSE IF IsPunct(toks, r.next, ",")
                  THEN ParseMembers(toks, r.next + 1, PutMember(acc, toks[i].v, r.val))
             ELSE IF IsPunct(toks, r.next, "}")
                  THEN ParseOk(JObj(PutMember(acc, toks[i].v, r.val)), r.next + 1)
             ELSE ParseFail

\* JSON.parse of a whole body: one value and nothing after it.
JsonParse(toks) ==
    LET r == ParseValue(toks, 1)
    IN  IF r.ok /\ r.next = Len(toks) + 1 THEN r ELSE ParseFail

(***************************************************************************)
(* Errors, promise settlements, HTTP requests and responses.               *)
(***************************************************************************)
Err(name, message) == [name |-> name, message |-> message]
NoError == Err("", "")
\* What fetch() rejects with when the request cannot be carried out.
NetworkError == Err("TypeError", "fetch failed")
\* What response.json() rejects with when the body is not JSON.
DecodeError == Err("SyntaxError", "Unexpected end of JSON input")

Pending == [kind |-> "pending", value |-> JNull, error |-> NoError]
Fulfilled(v) == [kind |-> "fulfilled", value |-> v, error |-> NoError]
Rejected(e) == [kind |-> "rejected", value |-> JNull, error |-> e]

\* process.env.NEXT_PUBLIC_API_URL: undefined, or a string (possibly empty).
Undefined == [defined |-> FALSE, value |-> ""]
Defined(s) == [defined |-> TRUE, value |-> s]
EnvValues == {Undefined, Defined(""), Defined("http://backend:8000")}

Slugs == {"intro-to-systems", "missing"}

Statuses == {200, 299, 300, 400, 404, 500, 503}

LectureSeqs == UNION {[1..n -> Lectures] : n \in 0..MaxLectures}
ArrayBodies == {Stringify(JArr(xs)) : xs \in LectureSeqs}
ObjectBodies == {Stringify(l) : l \in Lectures}
WellFormedBodies == ArrayBodies \cup ObjectBodies
Truncate(b) == SubSeq(b, 1, Len(b) - 1)
MalformedBodies == {<<>>} \cup {Truncate(b) : b \in WellFormedBodies}
Bodies == WellFormedBodies \cup MalformedBodies

\* JsonParse of every body of the model, tabulated once.
BodyJson == [b \in Bodies |-> JsonParse(b)]
\* response.json(): the settlement of the promise it returns.
ResponseJson(response) == BodyJson[response.body]

\* What the remote service may answer: any status with any body.
Responses == [status : Statuses, body : Bodies]
\* A smaller choice of answers, for the runs with concurrent invocations.
LeanResponses ==
    [status : {200, 404},
     body : {Stringify(JArr(<<LectureA, LectureIntro>>)), Stringify(LectureIntro), <<>>}]

NoResponse ==
    [kind |-> "none", status |-> 0, body |-> <<>>, bodyUsed |-> FALSE,
     fromCache |-> FALSE, error |-> NoError]
\* fetch() resolved with answer r, read from the HTTP cache or from the network.
Resolved(r, cached) ==
    [kind |-> "response", status |-> r.status, body |-> r.body, bodyUsed |-> FALSE,
     fromCache |-> cached, error |-> NoError]
\* fetch() rejected with error e.
Failed(e) ==
    [kind |-> "rejected", status |-> 0, body |-> <<>>, bodyUsed |-> FALSE,
     fromCache |-> FALSE, error |-> e]

IdleCall ==
    [pc |-> "idle", fn |-> "none", slug |-> "", requests |-> <<>>, networkCalls |-> 0,
     response |-> NoResponse, payload |-> JNull, result |-> Pending]

(***************************************************************************)
(* State.                                                                  *)
(*   processEnv  process.env.NEXT_PUBLIC_API_URL as it is now              *)
(*   apiBaseUrl  the module constant of line 16                            *)
(*   calls       the invocations: pc, the function and its argument, the   *)
(*               requests it passed to fetch(), how many of them went to   *)
(*               the network, its local response and payload, and the      *)
(*               settlement of the promise it returned                     *)
(*   httpCache   the responses the platform's fetch cache holds            *)
(***************************************************************************)
VARIABLES processEnv, apiBaseUrl, calls, httpCache

vars == <<processEnv, apiBaseUrl, calls, httpCache>>

DefaultApiBaseUrl == "http://localhost:8000"

\* process.env.NEXT_PUBLIC_API_URL || "http://localhost:8000"
ResolveApiBaseUrlFalsy(env) ==
    IF env.defined /\ env.value # "" THEN env.value ELSE DefaultApiBaseUrl
\* process.env.NEXT_PUBLIC_API_URL ?? "http://localhost:8000"
ResolveApiBaseUrl(env) ==
    IF env.defined THEN env.value ELSE DefaultApiBaseUrl

\* `${apiBaseUrl}/api/lectures`
LecturesUrl(base) == base \o "/api/lectures"
\* `${apiBaseUrl}/api/lectures/${slug}`
LectureUrl(base, slug) == base \o "/api/lectures/" \o slug

\* { cache: "force-cache" }
RequestInitCached == [cache |-> "force-cache"]
\* { cache: "no-store" }
RequestInit == [cache |-> "no-store"]

\* The request fetch(url, init) makes: no method is given, so it is a GET.
Request(url, init) == [method |-> "GET", url |-> url, cache |-> init.cache]

\* response.ok, taken as status < 400
ResponseOkBelow400(status) == status < 400
\* response.ok: the status is in the range 200-299.
ResponseOk(status) == 200 <= status /\ status <= 299

\* throw new Error("Unable to load lectures")
FetchLecturesError == Err("Error", "Unable to load lectures")
\* the throw of fetchLectures, copied into fetchLecture unchanged
FetchLectureErrorCopied == FetchLecturesError
\* throw new Error("Lecture not found")
FetchLectureError == Err("Error", "Lecture not found")

\* fetchLectures with the lectures that have no key concepts filtered out
FetchLecturesReturnFiltered(payload) ==
    Fulfilled(IF payload.k = "arr"
              THEN JArr(SelectSeq(payload.items,
                                  LAMBDA l : Field(l, "keyConcepts") # JArr(<<>>)))
              ELSE payload)
\* return payload (fetchLectures)
FetchLecturesReturn(payload) == Fulfilled(payload)

\* fetchLecture that checks the returned record against the requested slug
FetchLectureReturnChecked(slug, payload) ==
    IF Field(payload, "slug") = JStr(slug)
    THEN Fulfilled(payload)
    ELSE Rejected(FetchLectureError)
\* return payload (fetchLecture)
FetchLectureReturn(slug, payload) == Fulfilled(payload)

\* fetchLectures with a catch that turns any failure into an empty listing
FetchLecturesRethrowSwallowed(e) == Fulfilled(JArr(<<>>))
\* An await that throws inside fetchLectures, which has no try/catch: the
\* promise of the invocation rejects with the same error.
FetchLecturesRethrow(e) == Rejected(e)
\* fetchLecture with a catch that reports any failure as "Lecture not found"
FetchLectureRethrowTranslated(e) == Rejected(FetchLectureError)
\* The same for fetchLecture.
FetchLectureRethrow(e) == Rejected(e)

\* A response variable declared outside the functions: every invocation
\* reads the response of whichever invocation is decoding.
SharedResponse(c) ==
    calls[CHOOSE d \in Calls : calls[d].pc = "json" /\
             \A e \in Calls : calls[e].pc = "json" => d <= e].response
\* const response: a local of the invocation.
OwnResponse(c) == calls[c].response

(***************************************************************************)
(* The platform's fetch(): a request whose cache mode is "no-store" goes   *)
(* to the network, and its response is not stored; under any other mode a  *)
(* stored response for the URL is served without a network call, and a     *)
(* response from the network is stored.                                    *)
(***************************************************************************)
CacheHit(req) == req.cache # "no-store" /\ \E e \in httpCache : e.url = req.url
CachedReply(req) == (CHOOSE e \in httpCache : e.url = req.url).reply

\* The invocation c after it has called fetch(url, init) and suspended.
AwaitFetch(c, fn, slug, url, init) ==
    LET req == Request(url, init)
    IN  [calls[c] EXCEPT
            !.pc = "fetch", !.fn = fn, !.slug = slug,
            !.requests = Append(@, req),
            !.networkCalls = IF CacheHit(req) THEN @ ELSE @ + 1,
            !.response = IF CacheHit(req)
                         THEN Resolved(CachedReply(req), TRUE)
                         ELSE NoResponse]

LastRequest(c) == calls[c].requests[Len(calls[c].requests)]

\* The answers fetch() of invocation c may resolve with, out of rs.
Deliverable(c, rs) ==
    IF calls[c].response.fromCache
    THEN {[status |-> calls[c].response.status, body |-> calls[c].response.body]}
    ELSE rs

\* The HTTP cache after answer r to the last request of c has arrived.
Store(c, r) ==
    IF LastRequest(c).cache = "no-store" \/ calls[c].response.fromCache
    THEN httpCache
    ELSE {e \in httpCache : e.url # LastRequest(c).url}
         \cup {[url |-> LastRequest(c).url, reply |-> r]}

(***************************************************************************)
(* Module initialization (line 16).                                        *)
(***************************************************************************)
Init ==
    /\ processEnv \in EnvValues
    /\ apiBaseUrl = ResolveApiBaseUrl(processEnv)
    /\ calls = [c \in Calls |-> IdleCall]
    /\ httpCache = {}

\* The environment variable changes after the module was loaded.
EnvChange ==
    /\ processEnv' \in EnvValues \ {processEnv}
    /\ UNCHANGED <<apiBaseUrl, calls, httpCache>>

(***************************************************************************)
(* fetchLectures (lines 18-29).                                            *)
(***************************************************************************)
\* Lines 18-21: the call, up to the first await.
FetchLecturesCall(c) ==
    /\ calls[c].pc = "idle"
    /\ calls' = [calls EXCEPT ![c] =
                   AwaitFetch(c, "fetchLectures", "", LecturesUrl(apiBaseUrl), RequestInit)]
    /\ UNCHANGED <<processEnv, apiBaseUrl, httpCache>>

\* fetchLectures with a retry: after a failed fetch() it fetches once more.
FetchLecturesOnFetchErrorRetry(c) ==
    /\ calls[c].pc = "fetch" /\ calls[c].fn = "fetchLectures"
    /\ ~calls[c].response.fromCache
    /\ IF Len(calls[c].requests) < 2
       THEN calls' = [calls EXCEPT ![c] =
                        AwaitFetch(c, "fetchLectures", "", LecturesUrl(apiBaseUrl), RequestInit)]
       ELSE calls' = [calls EXCEPT ![c].pc = "done",
                                   ![c].response = Failed(NetworkError),
                                   ![c].result = FetchLecturesRethrow(NetworkError)]
    /\ UNCHANGED <<processEnv, apiBaseUrl, httpCache>>

\* Line 19: fetch() rejects; nothing catches it.
FetchLecturesOnFetchError(c) ==
    /\ calls[c].pc = "fetch" /\ calls[c].fn = "fetchLectures"
    /\ ~calls[c].response.fromCache
    /\ calls' = [calls EXCEPT ![c].pc = "done",
                              ![c].response = Failed(NetworkError),
                              ![c].result = FetchLecturesRethrow(NetworkError)]
    /\ UNCHANGED <<processEnv, apiBaseUrl, httpCache>>

\* Lines 19-27: fetch() resolves with r; the status check; the call of json().
FetchLecturesOnResponse(c, r) ==
    /\ calls[c].pc = "fetch" /\ calls[c].fn = "fetchLectures"
    /\ httpCache' = Store(c, r)
    /\ LET response == Resolved(r, calls[c].response.fromCache)
       IN  IF ~ResponseOk(response.status)
           THEN calls' = [calls EXCEPT ![c].pc = "done",
                                       ![c].response = response,
                                       ![c].result = Rejected(FetchLecturesError)]
           ELSE calls' = [calls EXCEPT ![c].pc = "json",
                                       ![c].response = [response EXCEPT !.bodyUsed = TRUE]]
    /\ UNCHANGED <<processEnv, apiBaseUrl>>

\* Lines 27-28: json() settles; the payload is returned, or the error thrown.
FetchLecturesOnJson(c) ==
    /\ calls[c].pc = "json" /\ calls[c].fn = "fetchLectures"
    /\ LET parsed == ResponseJson(OwnResponse(c))
       IN  IF parsed.ok
           THEN calls' = [calls EXCEPT ![c].pc = "done",
                                       ![c].payload = parsed.val,
                                       ![c].result = FetchLecturesReturn(parsed.val)]
           ELSE calls' = [calls EXCEPT ![c].pc = "done",
                                       ![c].result = FetchLecturesRethrow(DecodeError)]
    /\ UNCHANGED <<processEnv, apiBaseUrl, httpCache>>

(***************************************************************************)
(* fetchLecture (lines 31-42).                                             *)
(***************************************************************************)
\* Lines 31-34: the call, up to the first await.
FetchLectureCall(c, slug) ==
    /\ calls[c].pc = "idle"
    /\ calls' = [calls EXCEPT ![c] =
                   AwaitFetch(c, "fetchLecture", slug, LectureUrl(apiBaseUrl, slug), RequestInit)]
    /\ UNCHANGED <<processEnv, apiBaseUrl, httpCache>>

\* Line 32: fetch() rejects; nothing catches it.
FetchLectureOnFetchError(c) ==
    /\ calls[c].pc = "fetch" /\ calls[c].fn = "fetchLecture"
    /\ ~calls[c].response.fromCache
    /\ calls' = [calls EXCEPT ![c].pc = "done",
                              ![c].response = Failed(NetworkError),
                              ![c].result = FetchLectureRethrow(NetworkError)]
    /\ UNCHANGED <<processEnv, apiBaseUrl, httpCache>>

\* Lines 32-40: fetch() resolves with r; the status check; the call of json().
FetchLectureOnResponse(c, r) ==
    /\ calls[c].pc = "fetch" /\ calls[c].fn = "fetchLecture"
    /\ httpCache' = Store(c, r)
    /\ LET response == Resolved(r, calls[c].response.fromCache)
       IN  IF ~ResponseOk(response.status)
           THEN calls' = [calls EXCEPT ![c].pc = "done",
                                       ![c].response = response,
                                       ![c].result = Rejected(FetchLectureError)]
           ELSE calls' = [calls EXCEPT ![c].pc = "json",
                                       ![c].response = [response EXCEPT !.bodyUsed = TRUE]]
    /\ UNCHANGED <<processEnv, apiBaseUrl>>

\* Lines 40-41: json() settles; the payload is returned, or the error thrown.
FetchLectureOnJson(c) ==
    /\ calls[c].pc = "json" /\ calls[c].fn = "fetchLecture"
    /\ LET parsed == ResponseJson(OwnResponse(c))
       IN  IF parsed.ok
           THEN calls' = [calls EXCEPT ![c].pc = "done",
                                       ![c].payload = parsed.val,
                                       ![c].result = FetchLectureReturn(calls[c].slug, parsed.val)]
           ELSE calls' = [calls EXCEPT ![c].pc = "done",
                                       ![c].result = FetchLectureRethrow(DecodeError)]
    /\ UNCHANGED <<processEnv, apiBaseUrl, httpCache>>

(***************************************************************************)
(* Specifications.                                                         *)
(***************************************************************************)
\* One caller that awaits each call, any answer of the remote service.
Next ==
    \/ EnvChange
    \/ \E c \in Sequential :
          \/ FetchLecturesCall(c)
          \/ FetchLecturesOnFetchError(c)
          \/ \E r \in Deliverable(c, Responses) : FetchLecturesOnResponse(c, r)
          \/ FetchLecturesOnJson(c)
          \/ \E slug \in Slugs : FetchLectureCall(c, slug)
          \/ FetchLectureOnFetchError(c)
          \/ \E r \in Deliverable(c, Responses) : FetchLectureOnResponse(c, r)
          \/ FetchLectureOnJson(c)

Spec == Init /\ [][Next]_vars

\* fetch() settles and json() settles: the platform answers every request,
\* with a response or an error, and the event loop runs every continuation.
Settles(c) ==
    \/ FetchLecturesOnFetchError(c)
    \/ \E r \in Deliverable(c, Responses) : FetchLecturesOnResponse(c, r)
    \/ FetchLecturesOnJson(c)
    \/ FetchLectureOnFetchError(c)
    \/ \E r \in Deliverable(c, Responses) : FetchLectureOnResponse(c, r)
    \/ FetchLectureOnJson(c)

FairSpec == Spec /\ \A c \in Sequential : WF_vars(Settles(c))

\* NumCalls invocations in flight at once, a smaller choice of answers.
ConcNext ==
    \/ EnvChange
    \/ \E c \in Calls :
          \/ FetchLecturesCall(c)
          \/ FetchLecturesOnFetchError(c)
          \/ \E r \in Deliverable(c, LeanResponses) : FetchLecturesOnResponse(c, r)
          \/ FetchLecturesOnJson(c)
          \/ \E slug \in Slugs : FetchLectureCall(c, slug)
          \/ FetchLectureOnFetchError(c)
          \/ \E r \in Deliverable(c, LeanResponses) : FetchLectureOnResponse(c, r)
          \/ FetchLectureOnJson(c)

ConcSpec == Init /\ [][ConcNext]_vars

(***************************************************************************)
(* The properties of the specification, one per claim.                     *)
(***************************************************************************)
Started(c) == calls[c].pc # "idle"
Finished(c) == calls[c].pc = "done"
\* fetch() of invocation c resolved with a response.
Answered(c) == calls[c].response.kind = "response" /\ calls[c].pc \in {"json", "done"}
Success(status) == status \in 200..299

\* The two errors the specification names.
ListingUnavailable == [name |-> "Error", message |-> "Unable to load lectures"]
LectureNotFound == [name |-> "Error", message |-> "Lecture not found"]
Failure(e) == [kind |-> "rejected", value |-> JNull, error |-> e]

\* C1: whenever the list request is answered with a status outside 200-299,
\* whatever the body, fetchLectures has failed with "Unable to load
\* lectures", has not decoded the body and has returned no value.
C1_ListStatusFailure ==
    \A c \in Calls :
        (calls[c].fn = "fetchLectures" /\ Answered(c) /\ ~Success(calls[c].response.status))
        => /\ Finished(c)
           /\ calls[c].result = Failure(ListingUnavailable)
           /\ ~calls[c].response.bodyUsed
           /\ calls[c].payload = JNull

\* A 503 carrying a well-formed, non-empty lecture array was turned into the error.
C1_Witness ==
    \E c \in Calls :
        /\ calls[c].fn = "fetchLectures" /\ Finished(c)
        /\ calls[c].response.status = 503
        /\ calls[c].response.body = Stringify(JArr(<<LectureA>>))
        /\ calls[c].result.kind = "rejected"

\* C2: whenever the detail request is answered with a status outside
\* 200-299, for any slug, fetchLecture has failed with "Lecture not found":
\* never with "Unable to load lectures", and never with a value.
C2_DetailStatusFailure ==
    \A c \in Calls :
        (calls[c].fn = "fetchLecture" /\ Answered(c) /\ ~Success(calls[c].response.status))
        => /\ Finished(c)
           /\ calls[c].result = Failure(LectureNotFound)
           /\ calls[c].result.error # ListingUnavailable
           /\ ~calls[c].response.bodyUsed
           /\ calls[c].payload = JNull

\* A 500 (an unrelated server failure) for an existing slug, with the lecture
\* in the body, was reported as "Lecture not found".
C2_Witness ==
    \E c \in Calls :
        /\ calls[c].fn = "fetchLecture" /\ Finished(c)
        /\ calls[c].slug = "intro-to-systems"
        /\ calls[c].response.status = 500
        /\ calls[c].response.body = Stringify(LectureIntro)
        /\ calls[c].result.kind = "rejected"

\* C3: when the list request is answered with a 2xx status and the body is
\* the JSON text of an array xs of N lectures, fetchLectures returns an array
\* of exactly N elements, the i-th equal to xs[i].
C3_ListPassThrough ==
    \A c \in Calls : \A xs \in LectureSeqs :
        (/\ calls[c].fn = "fetchLectures" /\ Finished(c) /\ Answered(c)
         /\ Success(calls[c].response.status)
         /\ calls[c].response.body = Stringify(JArr(xs)))
        => /\ calls[c].result.kind = "fulfilled"
           /\ calls[c].result.value.k = "arr"
           /\ Len(calls[c].result.value.items) = Len(xs)
           /\ \A i \in 1..Len(xs) : calls[c].result.value.items[i] = xs[i]

\* Two lectures that are not in the order of their titles or slugs came back
\* as they were sent.
C3_Witness ==
    \E c \in Calls :
        /\ calls[c].fn = "fetchLectures" /\ Finished(c)
        /\ calls[c].response.status = 200
        /\ calls[c].response.body = Stringify(JArr(<<LectureIntro, LectureA>>))
        /\ calls[c].result.kind = "fulfilled"
        /\ Len(calls[c].result.value.items) = 2

\* C4: when the detail request is answered with a 2xx status and the body is
\* the JSON text of one lecture, fetchLecture returns an object with the
\* same members, each equal to the one received, whatever slug was asked for.
C4_DetailPassThrough ==
    \A c \in Calls : \A l \in Lectures :
        (/\ calls[c].fn = "fetchLecture" /\ Finished(c) /\ Answered(c)
         /\ Success(calls[c].response.status)
         /\ calls[c].response.body = Stringify(l))
        => /\ calls[c].result.kind = "fulfilled"
           /\ calls[c].result.value.k = "obj"
           /\ Len(calls[c].result.value.items) = Len(LectureKeys)
           /\ \A i \in 1..Len(LectureKeys) :
                 Field(calls[c].result.value, LectureKeys[i]) = Field(l, LectureKeys[i])

\* The lecture "a" was returned to a caller that had asked for "missing".
C4_Witness ==
    \E c \in Calls :
        /\ calls[c].fn = "fetchLecture" /\ Finished(c)
        /\ calls[c].slug = "missing"
        /\ calls[c].response.status = 299
        /\ calls[c].result.kind = "fulfilled"
        /\ Field(calls[c].result.value, "slug") = JStr("a")

\* C5: an invocation has passed exactly one request to fetch() from its
\* start on, and that request went out once: in flight, and after it has
\* ended with a value, a status error, a transport error or a decode error.
C5_OneRequest ==
    \A c \in Calls :
        /\ Len(calls[c].requests) = (IF Started(c) THEN 1 ELSE 0)
        /\ calls[c].networkCalls = (IF Started(c) THEN 1 ELSE 0)

\* One invocation ended by a transport failure and another by a 404, each
\* after a single request.
C5_Witness ==
    \E c, d \in Calls :
        /\ Finished(c) /\ calls[c].response.kind = "rejected"
        /\ Finished(d) /\ calls[d].response.status = 404
        /\ Len(calls[c].requests) = 1 /\ Len(calls[d].requests) = 1

\* The base address the specification gives for environment env.
BaseAddressFor(env) == IF env.defined THEN env.value ELSE "http://localhost:8000"

\* C6: the module starts with the base address set to the override, or to
\* http://localhost:8000 without one; from then on the one request of
\* fetchLectures is a GET of {base}/api/lectures and the one request of
\* fetchLecture(slug) a GET of {base}/api/lectures/{slug}.
C6_RequestTarget ==
    /\ apiBaseUrl = BaseAddressFor(processEnv)
    /\ [](\A c \in Calls : Started(c) =>
            /\ calls[c].requests[1].method = "GET"
            /\ calls[c].fn = "fetchLectures" =>
                  calls[c].requests[1].url = apiBaseUrl \o "/api/lectures"
            /\ calls[c].fn = "fetchLecture" =>
                  calls[c].requests[1].url = apiBaseUrl \o "/api/lectures/" \o calls[c].slug
            /\ (calls[c].fn = "fetchLecture" /\ calls[c].slug = "intro-to-systems"
                /\ apiBaseUrl = "http://localhost:8000") =>
                  calls[c].requests[1].url = "http://localhost:8000/api/lectures/intro-to-systems"
            /\ (calls[c].fn = "fetchLectures" /\ apiBaseUrl = "http://backend:8000") =>
                  calls[c].requests[1].url = "http://backend:8000/api/lectures")

\* The request for "intro-to-systems" under the default base address.
C6_Witness ==
    \E c \in Calls :
        /\ calls[c].fn = "fetchLecture"
        /\ calls[c].requests = <<[method |-> "GET",
                                  url |-> "http://localhost:8000/api/lectures/intro-to-systems",
                                  cache |-> "no-store"]>>

\* C7: every request carries cache: "no-store"; every call of fetch() went
\* to the network; no response an invocation received came from the cache,
\* and the cache holds nothing that a later invocation could be served.
C7_NoStore ==
    /\ httpCache = {}
    /\ \A c \in Calls :
          /\ \A i \in 1..Len(calls[c].requests) : calls[c].requests[i].cache = "no-store"
          /\ calls[c].networkCalls = Len(calls[c].requests)
          /\ ~calls[c].response.fromCache

\* Two finished invocations of the same URL, each answered by the network,
\* the second with another answer than the first.
C7_Witness ==
    \E c, d \in Calls :
        /\ c # d /\ Finished(c) /\ Finished(d)
        /\ calls[c].requests = calls[d].requests
        /\ calls[c].networkCalls = 1 /\ calls[d].networkCalls = 1
        /\ calls[c].response.status = 200 /\ calls[d].response.status = 404

\* C8: an invocation whose fetch() was rejected has failed with the error
\* fetch() raised; one whose 2xx response has a body that is not JSON has
\* failed with the SyntaxError of the decoder.  Neither is "Unable to load
\* lectures" or "Lecture not found", and neither is a value.
C8_Propagation ==
    \A c \in Calls :
        /\ (Finished(c) /\ calls[c].response.kind = "rejected")
           => /\ calls[c].result = Failure(calls[c].response.error)
              /\ calls[c].result.error.name = "TypeError"
        /\ (Finished(c) /\ Answered(c) /\ Success(calls[c].response.status)
            /\ calls[c].response.body \in MalformedBodies)
           => /\ calls[c].result.kind = "rejected"
              /\ calls[c].result.value = JNull
              /\ calls[c].result.error.name = "SyntaxError"
              /\ calls[c].result.error \notin {ListingUnavailable, LectureNotFound}

\* fetchLectures received a 200 with an empty body and failed with the
\* decoder's error, not with an empty listing.
C8_Witness ==
    \E c \in Calls :
        /\ calls[c].fn = "fetchLectures" /\ Finished(c)
        /\ calls[c].response.status = 200 /\ calls[c].response.body = <<>>
        /\ calls[c].result.kind = "rejected"

\* The error the specification names for function fn.
DomainError(fn) == IF fn = "fetchLectures" THEN ListingUnavailable ELSE LectureNotFound

\* C9 as stated: an invocation ends with a value, or with the error named
\* for its function.
C9_TwoOutcomes ==
    \A c \in Calls :
        Finished(c) =>
            \/ calls[c].result.kind = "fulfilled"
            \/ calls[c].result = Failure(DomainError(calls[c].fn))

\* The outcome of a finished invocation: exactly one of a value and an
\* error.  The value is the whole decoded body; the error is the one named
\* for the function after a non-2xx status, the error of fetch() after a
\* transport failure, and the error of the decoder after a 2xx response
\* whose body is not JSON.
C9_Outcome(c) ==
    /\ calls[c].result.kind \in {"fulfilled", "rejected"}
    /\ calls[c].result.kind = "fulfilled" =>
          /\ calls[c].result.error = NoError
          /\ Answered(c) /\ Success(calls[c].response.status)
          /\ calls[c].response.body \in WellFormedBodies
          /\ Stringify(calls[c].result.value) = calls[c].response.body
    /\ calls[c].result.kind = "rejected" =>
          /\ calls[c].result.value = JNull
          /\ \/ /\ Answered(c) /\ ~Success(calls[c].response.status)
                /\ calls[c].result.error = DomainError(calls[c].fn)
             \/ /\ calls[c].response.kind = "rejected"
                /\ calls[c].result.error = calls[c].response.error
                /\ calls[c].result.error.name = "TypeError"
             \/ /\ Answered(c) /\ Success(calls[c].response.status)
                /\ calls[c].response.body \in MalformedBodies
                /\ calls[c].result.error.name = "SyntaxError"

\* C9, amended: an invocation that has not finished has no outcome, one
\* that has finished has exactly one (C9_Outcome), and every invocation
\* whose fetch() and json() settle finishes.
C9_TerminalOutcome ==
    /\ [](\A c \in Calls :
            /\ ~Finished(c) => calls[c].result = Pending
            /\ Finished(c) => C9_Outcome(c))
    /\ \A c \in Calls : Started(c) ~> Finished(c)

\* fetchLecture ended with the error of fetch(), which is neither a value
\* nor "Lecture not found".
C9_Witness ==
    \E c \in Calls :
        /\ calls[c].fn = "fetchLecture" /\ Finished(c)
        /\ calls[c].response.kind = "rejected"
        /\ calls[c].result.kind = "rejected"
        /\ calls[c].result.error # LectureNotFound

\* The value the remote service serialized into a well-formed body.
ValueSent ==
    [b \in WellFormedBodies |->
        CHOOSE v \in Lectures \cup {JArr(xs) : xs \in LectureSeqs} : Stringify(v) = b]

\* The outcome the response of invocation c alone determines.
OutcomeOf(c) ==
    IF calls[c].response.kind = "rejected"
    THEN Failure(calls[c].response.error)
    ELSE IF ~Success(calls[c].response.status)
    THEN Failure(DomainError(calls[c].fn))
    ELSE IF calls[c].response.body \in WellFormedBodies
    THEN [kind |-> "fulfilled", value |-> ValueSent[calls[c].response.body],
          error |-> NoError]
    ELSE Failure([name |-> "SyntaxError", message |-> "Unexpected end of JSON input"])

\* C10: with any number of invocations in flight, in any interleaving,
\*  - apiBaseUrl never changes, also when the environment does, and every
\*    request was built from it;
\*  - a step changes the state of at most one invocation, and never that
\*    of a finished one;
\*  - the outcome of a finished invocation is the one its own response
\*    determines.
C10_Independence ==
    /\ [][apiBaseUrl' = apiBaseUrl]_vars
    /\ [][\A c, d \in Calls :
            /\ Finished(c) => calls'[c] = calls[c]
            /\ c # d => (calls'[c] = calls[c] \/ calls'[d] = calls[d])]_vars
    /\ [](\A c \in Calls :
            /\ Started(c) =>
                  calls[c].requests[1].url \in
                      {apiBaseUrl \o "/api/lectures",
                       apiBaseUrl \o "/api/lectures/" \o calls[c].slug}
            /\ Finished(c) => calls[c].result = OutcomeOf(c))

\* After the environment changed, one invocation has finished with a value
\* while another, of the other function, is still decoding a different body.
C10_Witness ==
    \E c, d \in Calls :
        /\ c # d
        /\ BaseAddressFor(processEnv) # apiBaseUrl
        /\ calls[c].fn = "fetchLectures" /\ calls[c].pc = "json"
        /\ calls[d].fn = "fetchLecture" /\ Finished(d)
        /\ calls[d].result.kind = "fulfilled"
        /\ calls[c].response.body # calls[d].response.body

====
